---- MODULE Spec2Model ----
(***************************************************************************)
(* flask-servicelayer: the directory-backed service (LDAPOMService), its   *)
(* read-through cache (LDAPOMCachedService) and in-memory pagination.       *)
(*                                                                         *)
(* The directory is a map from (class, id) to an entry's attributes.       *)
(* Python objects are heap cells addressed by reference, so that an        *)
(* in-place setattr/delattr is seen through every alias of the object.     *)
(* kwargs dictionaries are sequences of <<key, value>> pairs with distinct *)
(* keys, in insertion order (the iteration order of a Python 3 dict).      *)
(***************************************************************************)
EXTENDS Integers, Sequences, FiniteSets, TLC

VARIABLES
    store,      \* the directory: (class, id) -> attributes of the entry
    heap,       \* the live Python objects, addressed by reference 1..Len(heap)
    ret,        \* the last call: operation, arguments, outcome
    persisted,  \* ids of the model's records saved or created and not deleted since
    allCache,   \* LDAPOMCachedService._all_cache: None, or a list of references
    getCache,   \* LDAPOMCachedService._get_cache: id -> reference
    findCache,  \* LDAPOMCachedService._find_cache: hash -> list of references
    nfetch,     \* how many times the cached all() asked the backend for the listing
    nwrites,    \* how many writes went through the cached service
    gen,        \* the iter_pages generator being consumed: <<>> or <<frame>>
    calls       \* per concurrent caller of the cached service: its call in flight

vars == <<store, heap, ret, persisted, allCache, getCache, findCache, nfetch,
          nwrites, gen, calls>>
cachevars == <<allCache, getCache, findCache, nfetch>>

(* ---------------------------- bounds ---------------------------------- *)

\* number of model objects the callers of the uncached service keep alive
MaxObjs == 1
\* largest page number / page size requested
MaxPage == 4
MaxPerPage == 3
\* number of records in the directory when it is only read
MaxRecords == 4

(* ---------------------------- domains --------------------------------- *)

\* the cn values in use, in the directory's enumeration order
Names == <<"jack", "sam", "daniel", "tealc", "george", "janet", "jonas">>
\* the ids the callers of the read-write services use
IdSeq == <<"jack", "sam">>
Ids == {IdSeq[i] : i \in 1..Len(IdSeq)}

\* the service's __model__ (tests.py: Person) and a class it does not manage
Model == "Person"
OtherClass == "Group"
AttrNames == {"shell", "lastname"}
Values == {"/bin/bash", "/bin/zsh"}
TransportKeys == {"csrf_token", "submit"}

(* ---------------------------- kwargs ---------------------------------- *)

Keys(kw) == {kw[i][1] : i \in DOMAIN kw}
Lookup(kw, k) == kw[CHOOSE i \in DOMAIN kw : kw[i][1] = k][2]
Dict(kw) == [k \in Keys(kw) |-> Lookup(kw, k)]

Opt(k, vals) == {<<>>} \cup {<< <<k, v>> >> : v \in vals}

\* BaseService._preprocess_params: pops csrf_token and submit
Base_preprocess_params(kwargs) ==
    SelectSeq(kwargs, LAMBDA p : p[1] \notin TransportKeys)

\* LDAPOMService._preprocess_params: also drops the empty-string values
preprocess_params(kwargs) ==
    SelectSeq(Base_preprocess_params(kwargs), LAMBDA p : p[2] # "")

\* BaseService._isinstance(obj): isinstance(obj, self.__model__)
isinstance(obj) == obj.cls = Model

\* the model objects among the live ones
Held(h) == Cardinality({r \in DOMAIN h : isinstance(h[r])})

\* LDAPOMCachedService.__init__ (a service without caches never leaves it)
None == <<>>
Some(x) == <<x>>
EmptyMap == [x \in {} |-> 0]
NoCache ==
    /\ allCache = None
    /\ getCache = EmptyMap
    /\ findCache = EmptyMap
    /\ nfetch = 0
    /\ nwrites = 0
    /\ gen = <<>>
    /\ calls = <<>>

(* ------------------------- the directory ------------------------------ *)

Dn(o) == <<o.cls, o.id>>

\* obj.save() of the object mapper: an object built by the constructor and
\* never saved cannot replace an existing entry (tests.py test_create)
entry_save_ok(st, o) == ~(o.isnew /\ Dn(o) \in DOMAIN st)
entry_save(st, o) ==
    [d \in DOMAIN st \cup {Dn(o)} |-> IF d = Dn(o) THEN o.attrs ELSE st[d]]

\* a delete that leaves the entry in the directory
entry_delete_keeps(st, o) == st

\* obj.delete() of the object mapper
entry_delete_ok(st, o) == Dn(o) \in DOMAIN st
entry_delete(st, o) == [d \in DOMAIN st \ {Dn(o)} |-> st[d]]

\* __model__.retrieve(ldap, id)
retrieve_ok(st, id) == <<Model, id>> \in DOMAIN st
retrieve(st, id) ==
    [cls |-> Model, id |-> id, attrs |-> st[<<Model, id>>], isnew |-> FALSE]

Matches(attrs, kw) ==
    \A i \in DOMAIN kw : kw[i][1] \in DOMAIN attrs /\ attrs[kw[i][1]] = kw[i][2]

\* __model__.search(ldap, **kwargs): the entries of the model's class, in
\* the directory's enumeration order, that match every criterion
search(st, kw) ==
    LET ids == SelectSeq(Names, LAMBDA n : /\ <<Model, n>> \in DOMAIN st
                                           /\ Matches(st[<<Model, n>>], kw))
    IN [i \in DOMAIN ids |-> retrieve(st, ids[i])]

(* ------------------------- LDAPOMService ------------------------------ *)

\* LDAPOMService.new: __model__(ldap, _compute_dn(kwargs), **_preprocess_params(kwargs))
new_object(kwargs) ==
    [cls |-> Model, id |-> Lookup(kwargs, "cn"),
     attrs |-> Dict(preprocess_params(kwargs)), isnew |-> TRUE]

NewKwargs ==
    {<< <<"csrf_token", "tok">> >>}
    \cup UNION {{<< <<"cn", n>> >>,
                 << <<"cn", n>>, <<"shell", "/bin/bash">> >>,
                 << <<"cn", n>>, <<"shell", "">>, <<"lastname", "Carter">>,
                    <<"csrf_token", "tok">> >>} : n \in Ids}

new(kwargs) ==
    /\ UNCHANGED cachevars
    /\ IF "cn" \notin Keys(kwargs)
       THEN /\ ret' = [op |-> "new", status |-> "KeyError"]
            /\ UNCHANGED <<store, heap, persisted>>
       ELSE /\ Held(heap) < MaxObjs
            /\ heap' = Append(heap, new_object(kwargs))
            /\ ret' = [op |-> "new", status |-> "ok", ref |-> Len(heap) + 1,
                       id |-> Lookup(kwargs, "cn")]
            /\ UNCHANGED <<store, persisted>>

\* LDAPOMService.save: obj.save(); return obj  (no _isinstance check)
save(r) ==
    /\ UNCHANGED cachevars
    /\ LET o == heap[r] IN
       IF entry_save_ok(store, o)
       THEN /\ store' = entry_save(store, o)
            /\ heap' = [heap EXCEPT ![r].isnew = FALSE]
            /\ persisted' = IF o.cls = Model THEN persisted \cup {o.id} ELSE persisted
            /\ ret' = [op |-> "save", status |-> "ok", ref |-> r, id |-> o.id]
       ELSE /\ ret' = [op |-> "save", status |-> "StoreError", ref |-> r, id |-> o.id]
            /\ UNCHANGED <<store, heap, persisted>>

\* BaseService.create: return self.save(self.new(**kwargs))
create(kwargs) ==
    /\ UNCHANGED cachevars
    /\ IF "cn" \notin Keys(kwargs)
       THEN /\ ret' = [op |-> "create", status |-> "KeyError"]
            /\ UNCHANGED <<store, heap, persisted>>
       ELSE LET o == new_object(kwargs) IN
            IF entry_save_ok(store, o)
            THEN /\ store' = entry_save(store, o)
                 /\ persisted' = persisted \cup {o.id}
                 /\ \E keep \in BOOLEAN :
                       /\ keep => Held(heap) < MaxObjs
                       /\ heap' = IF keep THEN Append(heap, [o EXCEPT !.isnew = FALSE])
                                          ELSE heap
                       /\ ret' = [op |-> "create", status |-> "ok", id |-> o.id,
                                  kwargs |-> kwargs,
                                  ref |-> IF keep THEN Len(heap) + 1 ELSE 0]
            ELSE /\ ret' = [op |-> "create", status |-> "StoreError", id |-> o.id]
                 /\ UNCHANGED <<store, heap, persisted>>

\* an update that forgets the delattr loop
delattrs_skipped(attrs, kwargs) == attrs

\* delattr(obj, k) for every k whose incoming value is '' (lines 316-318)
delattrs(attrs, kwargs) ==
    LET gone == {kwargs[i][1] : i \in {j \in DOMAIN kwargs : kwargs[j][2] = ""}}
    IN [k \in DOMAIN attrs \ gone |-> attrs[k]]

\* setattr(obj, k, v) for every item of _preprocess_params(kwargs) (lines 319-320)
setattrs(attrs, kwargs) ==
    LET kw == preprocess_params(kwargs)
    IN [k \in DOMAIN attrs \cup Keys(kw) |->
            IF k \in Keys(kw) THEN Lookup(kw, k) ELSE attrs[k]]

UpdateKwargs ==
    {<< <<"shell", "/bin/zsh">> >>, << <<"shell", "">> >>,
     << <<"lastname", "Carter">> >>,
     << <<"shell", "/bin/zsh">>, <<"lastname", "">> >>,
     << <<"shell", "">>, <<"lastname", "Carter">>, <<"submit", "ok">> >>,
     << <<"lastname", "">>, <<"csrf_token", "">> >>}

\* LDAPOMService.update
update(r, kwargs) ==
    /\ UNCHANGED cachevars
    /\ LET o == heap[r]
           o2 == [o EXCEPT !.attrs = setattrs(delattrs(o.attrs, kwargs), kwargs)]
       IN
       IF ~isinstance(o)
       THEN /\ ret' = [op |-> "update", status |-> "ValueError", ref |-> r, id |-> o.id]
            /\ UNCHANGED <<store, heap, persisted>>
       ELSE IF entry_save_ok(store, o2)
       THEN /\ store' = entry_save(store, o2)
            /\ heap' = [heap EXCEPT ![r] = [o2 EXCEPT !.isnew = FALSE]]
            /\ persisted' = persisted \cup {o.id}
            /\ ret' = [op |-> "update", status |-> "ok", ref |-> r, id |-> o.id,
                       kwargs |-> kwargs, old |-> o.attrs,
                       managed |-> ~o.isnew]
       ELSE /\ heap' = [heap EXCEPT ![r] = o2]
            /\ ret' = [op |-> "update", status |-> "StoreError", ref |-> r, id |-> o.id]
            /\ UNCHANGED <<store, persisted>>

\* a delete that also drops the record from _get_cache and forgets the listing
delete_invalidating(r) ==
    LET o == heap[r] IN
    IF entry_delete_ok(store, o)
    THEN /\ store' = entry_delete(store, o)
         /\ persisted' = IF o.cls = Model THEN persisted \ {o.id} ELSE persisted
         /\ ret' = [op |-> "delete", status |-> "ok", ref |-> r, id |-> o.id]
         /\ allCache' = None
         /\ getCache' = [id \in DOMAIN getCache \ {o.id} |-> getCache[id]]
         /\ UNCHANGED <<heap, findCache, nfetch>>
    ELSE /\ ret' = [op |-> "delete", status |-> "StoreError", ref |-> r, id |-> o.id]
         /\ UNCHANGED <<store, heap, persisted, cachevars>>

\* LDAPOMService.delete: obj.delete()  (no _isinstance check)
delete(r) ==
    /\ UNCHANGED cachevars
    /\ LET o == heap[r] IN
       IF entry_delete_ok(store, o)
       THEN /\ store' = entry_delete(store, o)
            /\ persisted' = IF o.cls = Model THEN persisted \ {o.id} ELSE persisted
            /\ ret' = [op |-> "delete", status |-> "ok", ref |-> r, id |-> o.id]
            /\ UNCHANGED heap
       ELSE /\ ret' = [op |-> "delete", status |-> "StoreError", ref |-> r, id |-> o.id]
            /\ UNCHANGED <<store, heap, persisted>>

\* LDAPOMService.get: __model__.retrieve(ldap, id); the caller may keep the
\* object it gets (ref > 0) or drop it (ref = 0)
get(id) ==
    /\ UNCHANGED cachevars
    /\ IF retrieve_ok(store, id)
       THEN /\ \E keep \in BOOLEAN :
                 /\ keep => Held(heap) < MaxObjs
                 /\ heap' = IF keep THEN Append(heap, retrieve(store, id)) ELSE heap
                 /\ ret' = [op |-> "get", status |-> "ok", id |-> id,
                            obj |-> retrieve(store, id),
                            ref |-> IF keep THEN Len(heap) + 1 ELSE 0]
            /\ UNCHANGED <<store, persisted>>
       ELSE /\ ret' = [op |-> "get", status |-> "NoResultFound", id |-> id]
            /\ UNCHANGED <<store, heap, persisted>>

\* LDAPOMService.all: list(__model__.search(ldap))
LDAPOM_all(st) == search(st, <<>>)

all ==
    /\ ret' = [op |-> "all", status |-> "ok", items |-> LDAPOM_all(store)]
    /\ UNCHANGED <<store, heap, persisted, cachevars>>

FindKwargs ==
    {<<>>, << <<"shell", "/bin/bash">> >>, << <<"lastname", "Carter">> >>,
     << <<"shell", "/bin/bash">>, <<"lastname", "Carter">> >>,
     << <<"lastname", "Carter">>, <<"shell", "/bin/bash">> >>}

\* LDAPOMService.find: list(__model__.search(ldap, **kwargs))
LDAPOM_find(st, kwargs) == search(st, kwargs)

find(kwargs) ==
    /\ ret' = [op |-> "find", status |-> "ok", kwargs |-> kwargs,
               items |-> LDAPOM_find(store, kwargs)]
    /\ UNCHANGED <<store, heap, persisted, cachevars>>

\* Python's objects[lo:hi] for 0 <= lo <= hi
Slice(s, lo, hi) == SubSeq(s, lo + 1, IF hi < Len(s) THEN hi ELSE Len(s))

\* line 335: the condition under which paginate aborts with 404
paginate_aborts(page, per_page, total, error_out) ==
    error_out /\ (page - 1) * per_page < total

\* LDAPOMService.paginate, given the listing self.all() returned
paginate_result(objects, page, per_page, error_out) ==
    LET total == Len(objects) IN
    IF paginate_aborts(page, per_page, total, error_out)
    THEN [op |-> "paginate", status |-> "NotFound", page |-> page,
          per_page |-> per_page, error_out |-> error_out, listing |-> objects]
    ELSE [op |-> "paginate", status |-> "ok", page |-> page,
          per_page |-> per_page, error_out |-> error_out, listing |-> objects,
          total |-> total,
          items |-> Slice(objects, (page - 1) * per_page, page * per_page)]

FilterBys == {<<>>, << <<"shell", "/bin/bash">> >>}

paginate(page, per_page, filter_by, error_out) ==
    /\ ret' = IF filter_by # <<>>
              THEN [op |-> "paginate", status |-> "NotImplementedError"]
              ELSE paginate_result(LDAPOM_all(store), page, per_page, error_out)
    /\ UNCHANGED <<store, heap, persisted, cachevars>>

Init ==
    /\ store = (<<Model, IdSeq[1]>> :> ("cn" :> IdSeq[1] @@ "shell" :> "/bin/bash"))
    /\ heap = <<>>
    /\ ret = [op |-> "init", status |-> "ok"]
    /\ persisted = {IdSeq[1]}
    /\ NoCache

\* the same service, whose caller also holds an object of another class
InitForeign ==
    /\ store = (<<Model, IdSeq[1]>> :> ("cn" :> IdSeq[1] @@ "shell" :> "/bin/bash"))
    /\ heap = << [cls |-> OtherClass, id |-> IdSeq[1],
                  attrs |-> ("cn" :> IdSeq[1]), isnew |-> TRUE] >>
    /\ ret = [op |-> "init", status |-> "ok"]
    /\ persisted = {IdSeq[1]}
    /\ NoCache

Next ==
    \/ UNCHANGED <<nwrites, gen, calls>> /\ \E kw \in NewKwargs : new(kw)
    \/ UNCHANGED <<nwrites, gen, calls>> /\ \E r \in DOMAIN heap : save(r)
    \/ UNCHANGED <<nwrites, gen, calls>> /\ \E kw \in NewKwargs : create(kw)
    \/ UNCHANGED <<nwrites, gen, calls>> /\ \E r \in DOMAIN heap, kw \in UpdateKwargs : update(r, kw)
    \/ UNCHANGED <<nwrites, gen, calls>> /\ \E r \in DOMAIN heap : delete(r)
    \/ UNCHANGED <<nwrites, gen, calls>> /\ \E id \in Ids : get(id)

\* CRUD through the uncached LDAPOMService
Spec == Init /\ [][Next]_vars
SpecForeign == InitForeign /\ [][Next]_vars

\* the read operations of LDAPOMService over every directory content
RecSeq == SubSeq(Names, 1, MaxRecords)
Fixture(n) == "cn" :> n @@ "shell" :> "/bin/bash"
                 @@ (IF n = Names[1] THEN "lastname" :> "Carter" ELSE <<>>)

InitRead ==
    /\ \E S \in SUBSET {RecSeq[i] : i \in 1..Len(RecSeq)} :
          store = [d \in {<<Model, n>> : n \in S} |-> Fixture(d[2])]
    /\ heap = <<>>
    /\ ret = [op |-> "init", status |-> "ok"]
    /\ persisted = {}
    /\ NoCache

NextRead ==
    \/ UNCHANGED <<nwrites, gen, calls>> /\ all
    \/ UNCHANGED <<nwrites, gen, calls>> /\ \E kw \in FindKwargs : find(kw)
    \/ UNCHANGED <<nwrites, gen, calls>> /\
          \E page \in 1..MaxPage, per_page \in 1..MaxPerPage,
             filter_by \in FilterBys, error_out \in BOOLEAN :
                paginate(page, per_page, filter_by, error_out)

SpecRead == InitRead /\ [][NextRead]_vars

(* ----------------------- LDAPOMCachedService -------------------------- *)

\* largest number of objects the cache and its callers keep alive
MaxCached == 3
\* cap on the backend listings one cached service may ask for
MaxFetch == 2
\* number of writes made through the cached service
MaxWrites == 1
\* largest page asked of the cached service (one record per page)
CachedMaxPage == 2

RECURSIVE Xor(_, _)
Xor(a, b) ==
    IF a = 0 THEN b
    ELSE IF b = 0 THEN a
    ELSE (((a % 2) + (b % 2)) % 2) + 2 * Xor(a \div 2, b \div 2)

\* hash() of the strings in use (one value per string), on HashBits bits
HashMod == 2 ^ 12
StrTable == <<"shell", "lastname", "cn", "/bin/bash", "/bin/zsh", "Carter", "">>
str_hash(str) == 131 * (CHOOSE i \in DOMAIN StrTable : StrTable[i] = str) + 7

\* hash() of a tuple of item hashes: x = (x ^ y) * mult, folded left to right,
\* so the position of an item changes the result
RECURSIVE tuple_fold(_, _, _)
tuple_fold(hs, x, mult) ==
    IF hs = <<>> THEN (x + 97531) % HashMod
    ELSE tuple_fold(Tail(hs), (Xor(x, Head(hs)) * (mult % HashMod)) % HashMod,
                    mult + 82520 + 2 * (Len(hs) - 1))
tuple_hash(hs) == tuple_fold(hs, 3430008 % HashMod, 1000003)

\* line 362: hash(tuple([i for i in kwargs.items()]))
find_key(kwargs) ==
    tuple_hash([i \in DOMAIN kwargs |->
                   tuple_hash(<<str_hash(kwargs[i][1]), str_hash(kwargs[i][2])>>)])

\* the heap after the objects of a fetched list are allocated, and their references
Alloc(h, objs) == h \o objs
Refs(h, objs) == [i \in DOMAIN objs |-> Len(h) + i]

\* an all() that forgets to fill _get_cache
fill_get_cache_skipped(gc, h, refs) == gc

\* an all() that fills _get_cache only for the ids it does not hold yet
fill_get_cache_setdefault(gc, h, refs) ==
    LET ids == {h[refs[i]].id : i \in DOMAIN refs}
    IN [id \in DOMAIN gc \cup ids |->
           IF id \in DOMAIN gc THEN gc[id]
           ELSE refs[CHOOSE i \in DOMAIN refs : h[refs[i]].id = id]]

\* lines 352-353: for e in self._all_cache: self._get_cache[e.id] = e
fill_get_cache(gc, h, refs) ==
    LET ids == {h[refs[i]].id : i \in DOMAIN refs}
        last(id) == CHOOSE i \in DOMAIN refs :
                       /\ h[refs[i]].id = id
                       /\ \A j \in DOMAIN refs : h[refs[j]].id = id => j <= i
    IN [id \in DOMAIN gc \cup ids |-> IF id \in ids THEN refs[last(id)] ELSE gc[id]]

\* an all() that tests the cached list for truth: an empty list is fetched again
Cached_all_fetches_if_falsy == allCache = None \/ allCache[1] = <<>>

\* LDAPOMCachedService.all: the heap, the caches and the list it returns
Cached_all_fetches == allCache = None
Cached_all_heap ==
    IF Cached_all_fetches THEN Alloc(heap, LDAPOM_all(store)) ELSE heap
Cached_all_list ==
    IF Cached_all_fetches THEN Refs(heap, LDAPOM_all(store)) ELSE allCache[1]
Cached_all_effect ==
    /\ Cached_all_fetches => /\ Len(Cached_all_heap) <= MaxCached
                             /\ nfetch < MaxFetch
    /\ heap' = Cached_all_heap
    /\ allCache' = Some(Cached_all_list)
    /\ getCache' = fill_get_cache(getCache, Cached_all_heap, Cached_all_list)
    /\ nfetch' = IF Cached_all_fetches THEN nfetch + 1 ELSE nfetch

Cached_all ==
    /\ Cached_all_effect
    /\ ret' = [op |-> "all", status |-> "ok", backend |-> Cached_all_fetches,
               items |-> Cached_all_list]
    /\ UNCHANGED <<store, persisted, findCache>>

\* LDAPOMCachedService.get
Cached_get(id) ==
    /\ UNCHANGED <<store, persisted, allCache, findCache, nfetch>>
    /\ IF id \in DOMAIN getCache
       THEN /\ ret' = [op |-> "get", status |-> "ok", id |-> id,
                       backend |-> FALSE, ref |-> getCache[id]]
            /\ UNCHANGED <<heap, getCache>>
       ELSE IF retrieve_ok(store, id)
       THEN /\ Len(heap) < MaxCached
            /\ heap' = Append(heap, retrieve(store, id))
            /\ getCache' = [i \in DOMAIN getCache \cup {id} |->
                               IF i = id THEN Len(heap) + 1 ELSE getCache[i]]
            /\ ret' = [op |-> "get", status |-> "ok", id |-> id,
                       backend |-> TRUE, ref |-> Len(heap) + 1]
       ELSE /\ ret' = [op |-> "get", status |-> "NoResultFound", id |-> id,
                       backend |-> TRUE]
            /\ UNCHANGED <<heap, getCache>>

CachedFindKwargs ==
    {<< <<"shell", "/bin/bash">>, <<"lastname", "Carter">> >>,
     << <<"lastname", "Carter">>, <<"shell", "/bin/bash">> >>}

\* LDAPOMCachedService.find
Cached_find(kwargs) ==
    LET h == find_key(kwargs)
        found == LDAPOM_find(store, kwargs)
    IN
    /\ UNCHANGED <<store, persisted, allCache, getCache, nfetch>>
    /\ IF h \in DOMAIN findCache
       THEN /\ ret' = [op |-> "find", status |-> "ok", kwargs |-> kwargs,
                       backend |-> FALSE, items |-> findCache[h]]
            /\ UNCHANGED <<heap, findCache>>
       ELSE /\ Len(heap) + Len(found) <= MaxCached
            /\ heap' = Alloc(heap, found)
            /\ findCache' = [k \in DOMAIN findCache \cup {h} |->
                                IF k = h THEN Refs(heap, found) ELSE findCache[k]]
            /\ ret' = [op |-> "find", status |-> "ok", kwargs |-> kwargs,
                       backend |-> TRUE, items |-> Refs(heap, found)]

\* LDAPOMService.paginate as LDAPOMCachedService inherits it: line 333's
\* self.all() is the cached all()
Cached_paginate(page, per_page, filter_by, error_out) ==
    /\ UNCHANGED <<store, persisted>>
    /\ IF filter_by # <<>>
       THEN /\ ret' = [op |-> "paginate", status |-> "NotImplementedError",
                       backend |-> FALSE]
            /\ UNCHANGED <<heap, cachevars>>
       ELSE /\ Cached_all_effect
            /\ ret' = [backend |-> Cached_all_fetches] @@
                      paginate_result(Cached_all_list, page, per_page, error_out)
            /\ UNCHANGED findCache

CachedCreateKwargs ==
    {<< <<"cn", Names[2]>>, <<"shell", "/bin/bash">>, <<"lastname", "Carter">> >>}
CachedUpdateKwargs ==
    {<< <<"shell", "/bin/zsh">> >>, << <<"lastname", "">> >>}

InitCached ==
    /\ store = (<<Model, Names[1]>> :> Fixture(Names[1]))
    /\ heap = <<>>
    /\ ret = [op |-> "init", status |-> "ok"]
    /\ persisted = {Names[1]}
    /\ NoCache

\* one more write through the cached service, while the budget lasts
CountWrite ==
    nwrites < MaxWrites /\ nwrites' = nwrites + 1 /\ UNCHANGED <<gen, calls>>

\* create, save, update and delete are inherited from LDAPOMService unchanged
NextCached ==
    \/ UNCHANGED <<nwrites, gen, calls>> /\ Cached_all
    \/ UNCHANGED <<nwrites, gen, calls>> /\ \E id \in Ids : Cached_get(id)
    \/ UNCHANGED <<nwrites, gen, calls>> /\ \E kw \in CachedFindKwargs : Cached_find(kw)
    \/ UNCHANGED <<nwrites, gen, calls>> /\
          \E page \in 1..CachedMaxPage, filter_by \in FilterBys, error_out \in BOOLEAN :
             Cached_paginate(page, 1, filter_by, error_out)
    \/ CountWrite /\ \E kw \in CachedCreateKwargs : create(kw)
    \/ CountWrite /\ \E r \in DOMAIN heap : save(r)
    \/ CountWrite /\ \E r \in DOMAIN heap, kw \in CachedUpdateKwargs : update(r, kw)
    \/ CountWrite /\ \E r \in DOMAIN heap : delete(r)

\* reads through one LDAPOMCachedService, mixed with writes through it
SpecCached == InitCached /\ [][NextCached]_vars

(* ============================ claims ================================== *)

\* Pagination.pages: int(ceil(total / float(per_page)))
pages(total, per_page) == (total + per_page - 1) \div per_page

\* the records one page of a listing holds: listing[(p-1)*per_page : p*per_page]
PageOf(listing, p, per_page) ==
    LET first == (p - 1) * per_page
        n == IF Len(listing) - first < per_page THEN Len(listing) - first ELSE per_page
    IN [i \in 1..(IF n > 0 THEN n ELSE 0) |-> listing[first + i]]

\* a paginate call that got past the filter_by check
Paginated(r) == r.op = "paginate" /\ r.status # "NotImplementedError"

\* C1: with empty filter_by and error_out = true, every page p with
\* 1 <= p <= ceil(total / per_page) is returned (no not-found), its items are
\* listing[(p-1)*per_page : p*per_page], and so hold at most per_page records.
C1_ValidPageIsReturned ==
    (/\ Paginated(ret)
     /\ ret.error_out
     /\ ret.page <= pages(Len(ret.listing), ret.per_page))
    => /\ ret.status = "ok"
       /\ ret.items = PageOf(ret.listing, ret.page, ret.per_page)
       /\ Len(ret.items) <= ret.per_page

\* C2: with empty filter_by and error_out = true, a page beyond the range of a
\* non-empty directory, (page-1)*per_page >= total > 0, signals not-found.
C2_PageBeyondRangeIsNotFound ==
    (/\ Paginated(ret)
     /\ ret.error_out
     /\ Len(ret.listing) > 0
     /\ (ret.page - 1) * ret.per_page >= Len(ret.listing))
    => ret.status = "NotFound"

\* the operations that take an object and must check its type
TakesObject(r) == r.op \in {"save", "update", "delete"}

\* C8: save, update and delete of an object that is not an instance of the
\* service's __model__ fail with ValueError and leave the directory unchanged.
C8_ForeignObjectIsRejected ==
    [][(TakesObject(ret') /\ ~isinstance(heap[ret'.ref]))
         => (ret'.status = "ValueError" /\ store' = store)]_vars

\* the creation attributes after sanitizing: no transport key, no empty value
Sanitized(kwargs) ==
    LET kept == {i \in DOMAIN kwargs :
                    kwargs[i][1] \notin {"csrf_token", "submit"} /\ kwargs[i][2] # ""}
    IN [k \in {kwargs[i][1] : i \in kept} |->
           kwargs[CHOOSE i \in kept : kwargs[i][1] = k][2]]

\* C9: get(id) returns a record exactly when a record with that id was saved
\* or created and not deleted since; new() alone persists nothing; the record
\* get returns right after create(kwargs) carries the sanitized kwargs.
C9_GetReturnsWhatIsPersisted ==
    [][/\ ret'.op = "get" => (ret'.status = "ok" <=> ret'.id \in persisted')
       /\ ret'.op = "get" /\ ret'.status # "ok" => ret'.status = "NoResultFound"
       /\ ret'.op = "new" => (store' = store /\ persisted' = persisted)
       /\ (ret.op = "create" /\ ret.status = "ok" /\ ret'.op = "get" /\ ret'.id = ret.id)
            => (ret'.status = "ok" /\ ret'.obj.attrs = Sanitized(ret.kwargs))]_vars

\* a get that raises for an id the directory held at the start: it was deleted
C9_Witness ==
    /\ ret.op = "get"
    /\ ret.status = "NoResultFound"
    /\ ret.id = IdSeq[1]
    /\ \E r \in DOMAIN heap :
          heap[r].id = ret.id /\ isinstance(heap[r]) /\ ~heap[r].isnew

\* C10: a successful update removes every attribute whose incoming value is
\* '', assigns every other non-transport key, leaves the rest, persists the
\* record, and the next get of that id shows exactly these attributes.
C10_UpdateRemovesAndAssigns ==
    [][/\ (ret'.op = "update" /\ ret'.status = "ok") =>
            LET kw == ret'.kwargs
                now == heap'[ret'.ref].attrs
                was == heap[ret'.ref].attrs
            IN /\ \A i \in DOMAIN kw :
                     IF kw[i][2] = "" THEN kw[i][1] \notin DOMAIN now
                     ELSE kw[i][1] \notin {"csrf_token", "submit"}
                             => (kw[i][1] \in DOMAIN now /\ now[kw[i][1]] = kw[i][2])
               /\ \A k \in (DOMAIN was \cup DOMAIN now) \ Keys(kw) :
                     k \in DOMAIN was /\ k \in DOMAIN now /\ now[k] = was[k]
               /\ store'[<<Model, ret'.id>>] = now
       /\ (ret.op = "update" /\ ret.status = "ok" /\ ret'.op = "get" /\ ret'.id = ret.id)
            => (ret'.status = "ok" /\ ret'.obj.attrs = heap[ret.ref].attrs)]_vars

\* an update that removed an attribute the record had and assigned another
C10_Witness ==
    /\ ret.op = "update"
    /\ ret.status = "ok"
    /\ ret.managed
    /\ \E i \in DOMAIN ret.kwargs :
          /\ ret.kwargs[i][2] = ""
          /\ ret.kwargs[i][1] \in DOMAIN ret.old
          /\ ret.kwargs[i][1] \notin DOMAIN store[<<Model, ret.id>>]
    /\ \E i \in DOMAIN ret.kwargs :
          /\ ret.kwargs[i][1] \in AttrNames
          /\ ret.kwargs[i][2] # ""
          /\ store[<<Model, ret.id>>][ret.kwargs[i][1]] = ret.kwargs[i][2]

\* two kwargs dictionaries holding the same key/value pairs
SamePairs(kw1, kw2) ==
    {kw1[i] : i \in DOMAIN kw1} = {kw2[i] : i \in DOMAIN kw2}

\* C3: find with criteria whose pairs are already cached, in whatever argument
\* order they were given then, hits that entry: no backend search, same list.
C3_FindKeyIgnoresArgumentOrder ==
    [][\A kw \in CachedFindKwargs :
          (/\ ret'.op = "find"
           /\ SamePairs(kw, ret'.kwargs)
           /\ find_key(kw) \in DOMAIN findCache)
          => (~ret'.backend /\ ret'.items = findCache[find_key(kw)])]_vars

\* the references the three caches hold
CachedRefs ==
    (IF allCache = None THEN {} ELSE {allCache[1][i] : i \in DOMAIN allCache[1]})
    \cup {getCache[id] : id \in DOMAIN getCache}
    \cup UNION {{findCache[h][i] : i \in DOMAIN findCache[h]} : h \in DOMAIN findCache}

\* the objects a list of references stands for
Deref(h, refs) == [i \in DOMAIN refs |-> h[refs[i]]]

\* C4 as stated: a paginate call leaves the three caches as they were and
\* computes its page from a fresh backend listing.
C4_PaginateBypassesCaches ==
    [][ret'.op = "paginate" =>
          /\ allCache' = allCache /\ getCache' = getCache /\ findCache' = findCache
          /\ ret'.status # "NotImplementedError" =>
                Deref(heap', ret'.listing) = LDAPOM_all(store)]_vars

\* C4 amended: paginate with an empty filter_by goes through the cached
\* all(): it fills _all_cache from the backend when it is None and reuses it
\* otherwise, stores every listed record in _get_cache, keeps the other
\* _get_cache entries and _find_cache, and pages the cached list; with a
\* filter_by it raises before touching any cache.
C4_PaginateGoesThroughCachedAll ==
    [][ret'.op = "paginate" =>
          IF ret'.status = "NotImplementedError"
          THEN allCache' = allCache /\ getCache' = getCache /\ findCache' = findCache
          ELSE /\ findCache' = findCache
               /\ allCache' # None
               /\ ret'.listing = allCache'[1]
               /\ IF allCache = None
                  THEN ret'.backend /\ Deref(heap', allCache'[1]) = LDAPOM_all(store)
                  ELSE ~ret'.backend /\ allCache' = allCache /\ heap' = heap
               /\ \A i \in DOMAIN allCache'[1] :
                     /\ heap'[allCache'[1][i]].id \in DOMAIN getCache'
                     /\ getCache'[heap'[allCache'[1][i]].id] = allCache'[1][i]
               /\ \A id \in DOMAIN getCache :
                     /\ id \in DOMAIN getCache'
                     /\ getCache'[id] # getCache[id] =>
                           \E i \in DOMAIN allCache'[1] : heap'[allCache'[1][i]].id = id
               /\ ret'.status = "ok" =>
                     ret'.items = PageOf(allCache'[1], ret'.page, ret'.per_page)]_vars

\* a page served from a cached listing that a later write made stale
C4_Witness ==
    /\ ret.op = "paginate"
    /\ ret.status = "ok"
    /\ ~ret.backend
    /\ Len(ret.items) > 0
    /\ Deref(heap, ret.listing) # LDAPOM_all(store)

IsWrite(r) == r.op \in {"create", "save", "update", "delete"}

\* C5 as stated: no write changes a cache, and what the cached reads return
\* after it is exactly what they returned before it.
C5_WritesLeaveCachedReadsAsTheyWere ==
    [][IsWrite(ret') =>
          /\ allCache' = allCache /\ getCache' = getCache /\ findCache' = findCache
          /\ \A r \in CachedRefs : heap'[r] = heap[r]]_vars

\* C5 amended: no write purges or modifies a cache (same keys, same record
\* objects); create, save and delete leave the cached record objects as they
\* were, while update changes only the object it is given, in place, also
\* when a cache holds it.
C5_WritesNeverTouchTheCaches ==
    [][IsWrite(ret') =>
          /\ allCache' = allCache /\ getCache' = getCache /\ findCache' = findCache
          /\ \A r \in CachedRefs :
                heap'[r] # heap[r] =>
                   /\ ret'.op = "update"
                   /\ ret'.ref = r
                   /\ heap'[r].id = heap[r].id]_vars

\* an update of a record object that a cache holds: the cache now shows the
\* new value
C5_Witness ==
    /\ ret.op = "update"
    /\ ret.status = "ok"
    /\ ret.ref \in CachedRefs
    /\ heap[ret.ref].attrs # ret.old

CachedRead(r) == r.op \in {"all", "get", "find", "paginate"}

\* C6: the backend listing is fetched at most once; once all() has returned,
\* every all() returns that same list without the backend, and no read in
\* between changes the records in it.
C6_AllIsFetchedOnce ==
    [][/\ nfetch' <= 1
       /\ ret'.op = "all" => (allCache' # None /\ ret'.items = allCache'[1])
       /\ allCache # None =>
             /\ allCache' = allCache
             /\ ret'.op = "all" => ~ret'.backend
             /\ CachedRead(ret') =>
                   Deref(heap', allCache[1]) = Deref(heap, allCache[1])]_vars

\* a second all(), answered from the cache
C6_Witness ==
    /\ ret.op = "all"
    /\ ~ret.backend
    /\ nfetch = 1
    /\ Len(ret.items) > 0

\* C7: once a listing is cached, get(id) for the id of any record in it does
\* not ask the backend and returns the very object the listing holds.
C7_GetAfterAllIsServedFromCache ==
    [][(ret'.op = "get" /\ allCache # None) =>
          \A i \in DOMAIN allCache[1] :
             heap[allCache[1][i]].id = ret'.id =>
                /\ ret'.status = "ok"
                /\ ~ret'.backend
                /\ ret'.ref = allCache[1][i]]_vars

\* a get answered with the listing's object although an earlier get had
\* cached another object for that id
C7_Witness ==
    /\ ret.op = "get"
    /\ ret.status = "ok"
    /\ ~ret.backend
    /\ allCache # None
    /\ \E i \in DOMAIN allCache[1] : allCache[1][i] = ret.ref
    /\ \E r \in DOMAIN heap : r < ret.ref /\ heap[r].id = ret.id

(* ----------------------- Pagination.iter_pages ------------------------ *)

\* largest total of a Pagination whose page links are iterated
MaxTotal == 6
\* largest left_edge, left_current, right_current and right_edge
MaxEdge == 2

\* the loop's test with the window closed on the right (num <= page + right_current)
iter_included_inclusive(g, num) ==
    \/ num <= g.left_edge
    \/ (num > g.page - g.left_current - 1 /\ num <= g.page + g.right_current)
    \/ num > pages(g.total, g.per_page) - g.right_edge

\* the test of the loop body: is num a page to link to
iter_included(g, num) ==
    \/ num <= g.left_edge
    \/ (num > g.page - g.left_current - 1 /\ num < g.page + g.right_current)
    \/ num > pages(g.total, g.per_page) - g.right_edge

\* the first num of range(from, pages + 1) that passes the test, 0 when none does
iter_seek(g, from) ==
    LET S == {n \in from..pages(g.total, g.per_page) : iter_included(g, n)}
    IN IF S = {} THEN 0 ELSE CHOOSE n \in S : \A m \in S : n <= m

\* calling iter_pages on a Pagination(page, per_page, total, items) makes a
\* generator; nothing of its body has run yet (last = 0 is its first statement).
\* One generator is followed from its creation to its end.
iter_pages(page, per_page, total, left_edge, left_current, right_current, right_edge) ==
    /\ gen = <<>>
    /\ gen' = << [page |-> page, per_page |-> per_page, total |-> total,
                  left_edge |-> left_edge, left_current |-> left_current,
                  right_current |-> right_current, right_edge |-> right_edge,
                  pc |-> "start", num |-> 0, last |-> 0, out |-> <<>>] >>
    /\ UNCHANGED <<store, heap, ret, persisted, cachevars, nwrites, calls>>

\* next() on the generator: runs the loop up to its next yield.  pc says where
\* the generator is suspended: at "yield None" (gap), at "yield num" (num), or
\* not started / finished.
iter_next ==
    /\ Len(gen) = 1
    /\ gen[1].pc # "done"
    /\ LET g == gen[1]
       IN IF g.pc = "gap"
          THEN gen' = << [g EXCEPT !.pc = "num", !.out = Append(@, Some(g.num))] >>
          ELSE LET last == IF g.pc = "num" THEN g.num ELSE g.last
                   n == iter_seek(g, g.num + 1)
               IN gen' = << IF n = 0
                            THEN [g EXCEPT !.pc = "done", !.last = last]
                            ELSE IF last + 1 # n
                            THEN [g EXCEPT !.pc = "gap", !.last = last, !.num = n,
                                           !.out = Append(@, None)]
                            ELSE [g EXCEPT !.pc = "num", !.last = last, !.num = n,
                                           !.out = Append(@, Some(n))] >>
    /\ UNCHANGED <<store, heap, ret, persisted, cachevars, nwrites, calls>>

InitIter ==
    /\ store = EmptyMap
    /\ heap = <<>>
    /\ ret = [op |-> "init", status |-> "ok"]
    /\ persisted = {}
    /\ NoCache

NextIter ==
    \/ \E page \in 1..MaxPage, per_page \in 1..MaxPerPage, total \in 0..MaxTotal,
          left_edge \in 0..MaxEdge, left_current \in 0..MaxEdge,
          right_current \in 0..MaxEdge, right_edge \in 0..MaxEdge :
            iter_pages(page, per_page, total,
                       left_edge, left_current, right_current, right_edge)
    \/ iter_next

\* the page links of every Pagination, for every choice of the four widths
SpecIter == InitIter /\ [][NextIter]_vars

\* the page numbers the rule of inclusion selects for a generator's arguments
Selected(g) ==
    {n \in 1..pages(g.total, g.per_page) :
        \/ n <= g.left_edge
        \/ pages(g.total, g.per_page) - n < g.right_edge
        \/ (g.page - g.left_current - 1 < n /\ n < g.page + g.right_current)}

\* the number yielded last before position i of what was yielded, 0 when none was
YieldedBefore(out, i) ==
    LET J == {j \in 1..(i - 1) : out[j] # None}
    IN IF J = {} THEN 0 ELSE out[CHOOSE j \in J : \A k \in J : k <= j][1]

\* C11: iter_pages yields exactly the numbers n of [1, pages] with
\* n <= left_edge, or pages - n < right_edge, or
\* page - left_current - 1 < n < page + right_current, in ascending order and
\* nothing outside [1, pages]; a gap marker (None) comes immediately before a
\* number exactly when that number is not the previously yielded number plus
\* one (the number before the first one counting as 0), and every gap marker
\* is followed by a number.
C11_IterPagesYieldsSelectedPagesWithGaps ==
    Len(gen) = 1 =>
        LET g == gen[1]
            out == g.out
            nums == {out[i][1] : i \in {j \in DOMAIN out : out[j] # None}}
        IN /\ nums \subseteq Selected(g)
           /\ g.pc = "done" => nums = Selected(g)
           /\ \A i \in DOMAIN out :
                 out[i] # None =>
                    /\ out[i][1] > YieldedBefore(out, i)
                    /\ (i > 1 /\ out[i - 1] = None)
                          <=> (out[i][1] # YieldedBefore(out, i) + 1)
           /\ \A i \in DOMAIN out :
                 out[i] = None =>
                    /\ i = Len(out) => g.pc = "gap"
                    /\ i < Len(out) => out[i + 1] # None

\* a finished iteration that linked both edges and the window around the
\* current page, with a gap on each side of the window
C11_Witness ==
    /\ Len(gen) = 1
    /\ gen[1].pc = "done"
    /\ gen[1].out = <<Some(1), None, Some(3), None, Some(6)>>

(* ------------- LDAPOMCachedService under concurrent callers ----------- *)

\* number of callers sharing one cached service
MaxCallers == 2
Callers == 1..MaxCallers

\* the call frames without the one of caller c
Returned(c) == [d \in DOMAIN calls \ {c} |-> calls[d]]
Frame(c, f) == [d \in DOMAIN calls \cup {c} |-> IF d = c THEN f ELSE calls[d]]

\* a find that rebuilds _find_cache with its own entry alone
store_find_cache_reset(fc, h, refs) == [k \in {h} |-> refs]

\* self._find_cache[h] = ...
store_find_cache(fc, h, refs) ==
    [k \in DOMAIN fc \cup {h} |-> IF k = h THEN refs ELSE fc[k]]

\* self._get_cache[id] = ...
store_get_cache(gc, id, ref) ==
    [i \in DOMAIN gc \cup {id} |-> IF i = id THEN ref ELSE gc[i]]

\* a caller enters all(), get(id) or find(**kwargs) and makes the method's
\* test of the cache; what follows the test runs in later steps
Race_all(c) ==
    /\ c \notin DOMAIN calls
    /\ calls' = Frame(c, [op |-> "all", id |-> "", kwargs |-> <<>>, tmp |-> <<>>,
                          pc |-> IF allCache = None THEN "fetch" ELSE "fill"])
    /\ UNCHANGED <<store, heap, ret, persisted, cachevars, nwrites, gen>>

Race_get(c, id) ==
    /\ c \notin DOMAIN calls
    /\ calls' = Frame(c, [op |-> "get", id |-> id, kwargs |-> <<>>, tmp |-> <<>>,
                          pc |-> IF id \notin DOMAIN getCache THEN "fetch"
                                 ELSE "return"])
    /\ UNCHANGED <<store, heap, ret, persisted, cachevars, nwrites, gen>>

Race_find(c, kwargs) ==
    /\ c \notin DOMAIN calls
    /\ calls' = Frame(c, [op |-> "find", id |-> "", kwargs |-> kwargs, tmp |-> <<>>,
                          pc |-> IF find_key(kwargs) \notin DOMAIN findCache
                                 THEN "fetch" ELSE "return"])
    /\ UNCHANGED <<store, heap, ret, persisted, cachevars, nwrites, gen>>

\* the backend call of the method (super().all(), super().get(id),
\* super().find(**kwargs)); its result is not in the cache yet
Race_fetch(c) ==
    /\ c \in DOMAIN calls
    /\ calls[c].pc = "fetch"
    /\ LET f == calls[c]
           found == IF f.op = "all" THEN LDAPOM_all(store)
                    ELSE IF f.op = "find" THEN LDAPOM_find(store, f.kwargs)
                    ELSE IF retrieve_ok(store, f.id) THEN <<retrieve(store, f.id)>>
                    ELSE <<>>
       IN IF f.op = "get" /\ ~retrieve_ok(store, f.id)
          THEN /\ calls' = Returned(c)
               /\ ret' = [op |-> "get", status |-> "NoResultFound", id |-> f.id,
                          backend |-> TRUE, caller |-> c]
               /\ UNCHANGED <<heap, nfetch>>
          ELSE /\ Len(heap) + Len(found) <= MaxCached
               /\ f.op = "all" => nfetch < MaxFetch
               /\ heap' = Alloc(heap, found)
               /\ nfetch' = IF f.op = "all" THEN nfetch + 1 ELSE nfetch
               /\ calls' = Frame(c, [f EXCEPT !.tmp = Refs(heap, found),
                                              !.pc = "store"])
               /\ UNCHANGED ret
    /\ UNCHANGED <<store, persisted, allCache, getCache, findCache, nwrites, gen>>

\* the assignment of the fetched result to the cache
Race_store(c) ==
    /\ c \in DOMAIN calls
    /\ calls[c].pc = "store"
    /\ LET f == calls[c]
       IN /\ allCache' = IF f.op = "all" THEN Some(f.tmp) ELSE allCache
          /\ getCache' = IF f.op = "get"
                         THEN store_get_cache(getCache, f.id, f.tmp[1])
                         ELSE getCache
          /\ findCache' = IF f.op = "find"
                          THEN store_find_cache(findCache, find_key(f.kwargs), f.tmp)
                          ELSE findCache
          /\ calls' = Frame(c, [f EXCEPT !.pc = IF f.op = "all" THEN "fill"
                                                ELSE "return"])
    /\ UNCHANGED <<store, heap, ret, persisted, nfetch, nwrites, gen>>

\* all(): for e in self._all_cache: self._get_cache[e.id] = e
Race_fill(c) ==
    /\ c \in DOMAIN calls
    /\ calls[c].pc = "fill"
    /\ getCache' = fill_get_cache(getCache, heap, allCache[1])
    /\ calls' = Frame(c, [calls[c] EXCEPT !.pc = "return"])
    /\ UNCHANGED <<store, heap, ret, persisted, allCache, findCache, nfetch,
                   nwrites, gen>>

\* the return statement reads the cache again
Race_return(c) ==
    /\ c \in DOMAIN calls
    /\ calls[c].pc = "return"
    /\ LET f == calls[c]
       IN ret' = IF f.op = "all"
                 THEN [op |-> "all", status |-> "ok", caller |-> c,
                       items |-> allCache[1]]
                 ELSE IF f.op = "get"
                 THEN [op |-> "get", status |-> "ok", caller |-> c, id |-> f.id,
                       ref |-> getCache[f.id]]
                 ELSE [op |-> "find", status |-> "ok", caller |-> c,
                       kwargs |-> f.kwargs,
                       items |-> findCache[find_key(f.kwargs)]]
    /\ calls' = Returned(c)
    /\ UNCHANGED <<store, heap, persisted, cachevars, nwrites, gen>>

NextRace ==
    \/ \E c \in Callers : Race_all(c)
    \/ \E c \in Callers, id \in Ids : Race_get(c, id)
    \/ \E c \in Callers, kw \in CachedFindKwargs : Race_find(c, kw)
    \/ \E c \in Callers : Race_fetch(c)
    \/ \E c \in Callers : Race_store(c)
    \/ \E c \in Callers : Race_fill(c)
    \/ \E c \in Callers : Race_return(c)

\* the read operations of one cached service, interleaved statement by statement
SpecRace == InitCached /\ [][NextRace]_vars

====
